---- MODULE Spec2Model ----
(***************************************************************************)
(* Model of the COPEL invoice interpreter (src/main.py): the block locator *)
(* extract_invoice_items_block, the line classifier and aggregator         *)
(* classify_and_sum_lines, the tax-block extractor                         *)
(* extract_tax_block_values and the result assembly of upload_pdf.         *)
(*                                                                         *)
(* Texts are TLA+ strings, read character by character as the Python code  *)
(* and its regular expressions read them.  String indexes are Python's     *)
(* (0-based, -1 for "not found").  Amounts are exact decimals held as      *)
(* integers in units of 1/Scale.                                           *)
(***************************************************************************)
EXTENDS Integers, Sequences, FiniteSets, TLC

\* Body applied to the value of e, which is computed once
Let(e, Body(_)) == CHOOSE r \in {Body(x) : x \in {e}} : TRUE

(***************************************************************************)
(* Characters and Python string primitives                                 *)
(***************************************************************************)
Digits == {"0", "1", "2", "3", "4", "5", "6", "7", "8", "9"}

DigitVal(c) ==
  CASE c = "0" -> 0 [] c = "1" -> 1 [] c = "2" -> 2 [] c = "3" -> 3
    [] c = "4" -> 4 [] c = "5" -> 5 [] c = "6" -> 6 [] c = "7" -> 7
    [] c = "8" -> 8 [] c = "9" -> 9

\* s[i] with Python's 0-based index; "" outside the string
At(s, i) == IF i >= 0 /\ i < Len(s) THEN SubSeq(s, i + 1, i + 1) ELSE ""

IsDigitAt(s, i) == At(s, i) \in Digits

Min(a, b) == IF a <= b THEN a ELSE b

\* s[a:b] for 0 <= a
Slice(s, a, b) == SubSeq(s, a + 1, Min(b, Len(s)))

\* s.startswith(p, i)
StartsAt(s, p, i) ==
  /\ i >= 0
  /\ i + Len(p) <= Len(s)
  /\ SubSeq(s, i + 1, i + Len(p)) = p

\* the least i in a..b with P(i), -1 if there is none
First(P(_), a, b) ==
  Let({k \in a..b : P(k)}, LAMBDA hits :
    IF hits = {} THEN -1 ELSE CHOOSE k \in hits : \A j \in hits : k <= j)

\* s.find(p, i)
FindFrom(s, p, i) ==
  Let(<<i, Len(s) - Len(p)>>, LAMBDA r :
    First(LAMBDA k : StartsAt(s, p, k), r[1], r[2]))

\* s.find(p)
Find(s, p) == FindFrom(s, p, 0)

\* p in s
Contains(s, p) == Find(s, p) # -1

Lowercase ==
  {"a", "b", "c", "d", "e", "f", "g", "h", "i", "j", "k", "l", "m", "n", "o", "p", "q",
   "r", "s", "t", "u", "v", "w", "x", "y", "z"}

UpperChar(c) ==
  IF c \notin Lowercase THEN c ELSE
  CASE c = "a" -> "A" [] c = "b" -> "B" [] c = "c" -> "C" [] c = "d" -> "D"
    [] c = "e" -> "E" [] c = "f" -> "F" [] c = "g" -> "G" [] c = "h" -> "H"
    [] c = "i" -> "I" [] c = "j" -> "J" [] c = "k" -> "K" [] c = "l" -> "L"
    [] c = "m" -> "M" [] c = "n" -> "N" [] c = "o" -> "O" [] c = "p" -> "P"
    [] c = "q" -> "Q" [] c = "r" -> "R" [] c = "s" -> "S" [] c = "t" -> "T"
    [] c = "u" -> "U" [] c = "v" -> "V" [] c = "w" -> "W" [] c = "x" -> "X"
    [] c = "y" -> "Y" [] c = "z" -> "Z" [] OTHER -> c

\* s[a:b].upper(), by halving
RECURSIVE UpperRange(_, _, _)
UpperRange(s, a, b) ==
  IF b <= a THEN ""
  ELSE IF b = a + 1 THEN UpperChar(At(s, a))
  ELSE Let((a + b) \div 2, LAMBDA mid :
         UpperRange(s, a, mid) \o UpperRange(s, mid, b))

\* s.upper()
Upper(s) == UpperRange(s, 0, Len(s))

Whitespace == {" ", "\t", "\n", "\r"}

\* s.strip(): from the first to the last character that is not whitespace
Strip(s) ==
  Let(First(LAMBDA k : At(s, k) \notin Whitespace, 0, Len(s) - 1), LAMBDA a :
    IF a = -1 THEN ""
    ELSE Let(First(LAMBDA k : At(s, Len(s) - 1 - k) \notin Whitespace, 0, Len(s) - 1),
             LAMBDA z : Slice(s, a, Len(s) - z)))

\* s.splitlines(): the pieces between line breaks, no empty piece after a
\* final line break
RECURSIVE SplitLinesFrom(_, _)
SplitLinesFrom(s, start) ==
  IF start >= Len(s) THEN <<>>
  ELSE Let(FindFrom(s, "\n", start), LAMBDA nl :
         IF nl = -1 THEN <<Slice(s, start, Len(s))>>
         ELSE Let(nl + 1, LAMBDA next :
                <<Slice(s, start, nl)>> \o SplitLinesFrom(s, next)))

SplitLines(s) == SplitLinesFrom(s, 0)

\* len(s.split()): the number of maximal runs of non-whitespace characters
WordCount(s) ==
  Cardinality({i \in 0..(Len(s) - 1) :
                 /\ At(s, i) \notin Whitespace
                 /\ (i = 0 \/ At(s, i - 1) \in Whitespace)})

(***************************************************************************)
(* Numbers: exact decimals in units of 1/Scale                             *)
(***************************************************************************)
\* four decimal places: one more than any rounding of the program keeps
Scale == 10 * 10 * 10 * 10

Abs(x) == IF x < 0 THEN -x ELSE x

RECURSIVE Pow10(_)
Pow10(k) == IF k <= 0 THEN 1 ELSE 10 * Pow10(k - 1)

\* round(x, nd): to the nearest multiple of 10^-nd, a tie to the even one
Round(x, nd) ==
  Let(Scale \div Pow10(nd), LAMBDA unit :
    Let((x \div unit) * unit, LAMBDA lo :
      IF 2 * (x - lo) < unit THEN lo
      ELSE IF 2 * (x - lo) > unit THEN lo + unit
      ELSE IF (lo \div unit) % 2 = 0 THEN lo ELSE lo + unit))

\* the end of the run of digits of s that starts at i
RECURSIVE DigitsEnd(_, _)
DigitsEnd(s, i) == IF IsDigitAt(s, i) THEN Let(i + 1, LAMBDA j : DigitsEnd(s, j)) ELSE i

\* the number written by the digits s[a:b]
RECURSIVE NatVal(_, _, _)
NatVal(s, a, b) ==
  IF b <= a THEN 0
  ELSE Let(b - 1, LAMBDA c : 10 * NatVal(s, a, c) + DigitVal(At(s, c)))

\* the fraction written by the digits s[a:b] after a decimal point
RECURSIVE FracVal(_, _, _, _)
FracVal(s, a, b, unit) ==
  IF b <= a \/ unit = 0 THEN 0
  ELSE Let(<<a + 1, unit \div 10>>, LAMBDA r :
         DigitVal(At(s, a)) * unit + FracVal(s, r[1], b, r[2]))

\* s[i:e] reads -?\d+(\.\d+)?: its value
DecimalVal(s, i, e) ==
  Let(IF At(s, i) = "-" THEN i + 1 ELSE i, LAMBDA j0 :
    Let(DigitsEnd(s, j0), LAMBDA j1 :
      Let(NatVal(s, j0, j1) * Scale
            + (IF At(s, j1) = "." THEN FracVal(s, j1 + 1, e, Scale \div 10) ELSE 0),
          LAMBDA mag : IF At(s, i) = "-" THEN -mag ELSE mag)))

\* the end of a match of -?\d+(\.\d+)? at i, -1 if there is none
MatchDecimalAt(s, i) ==
  Let(IF At(s, i) = "-" THEN i + 1 ELSE i, LAMBDA j0 :
    Let(DigitsEnd(s, j0), LAMBDA j1 :
      IF j1 = j0 THEN -1
      ELSE IF At(s, j1) = "." /\ IsDigitAt(s, j1 + 1) THEN DigitsEnd(s, j1 + 1)
      ELSE j1))

\* float(s) accepts s as a plain decimal numeral; FALSE stands for ValueError
IsFloat(s) ==
  Let(IF At(s, 0) = "-" THEN 1 ELSE 0, LAMBDA j0 :
    Let(DigitsEnd(s, j0), LAMBDA j1 :
      Let(IF At(s, j1) = "." THEN DigitsEnd(s, j1 + 1) ELSE j1, LAMBDA j2 :
        /\ j2 = Len(s)
        /\ (j1 > j0 \/ j2 > j1 + 1))))

\* re.search(r"-?\d+(\.\d+)?", s): the value of the match, 0 if none
SearchDecimal(s) ==
  Let(First(LAMBDA k : MatchDecimalAt(s, k) # -1, 0, Len(s) - 1), LAMBDA i :
    IF i = -1 THEN 0 ELSE DecimalVal(s, i, MatchDecimalAt(s, i)))

\* the chained str.replace calls of parse_currency
RECURSIVE CleanCurrency(_, _)
CleanCurrency(s, i) ==
  IF i >= Len(s) THEN ""
  ELSE IF StartsAt(s, "R$", i) THEN Let(i + 2, LAMBDA j : CleanCurrency(s, j))
  ELSE Let(<<At(s, i), i + 1>>, LAMBDA r :
         (CASE r[1] \in {" ", ")", "."} -> ""
            [] r[1] = "(" -> "-"
            [] r[1] = "," -> "."
            [] OTHER -> r[1]) \o CleanCurrency(s, r[2]))

parse_currency(s) ==
  IF s = "" THEN 0
  ELSE Let(Strip(s), LAMBDA t :
         Let(CleanCurrency(t, 0), LAMBDA c :
           IF IsFloat(c) THEN DecimalVal(c, 0, Len(c)) ELSE SearchDecimal(c)))

\* the chained str.replace calls of parse_qty_kwh_token
RECURSIVE CleanQty(_, _)
CleanQty(s, i) ==
  IF i >= Len(s) THEN ""
  ELSE Let(<<At(s, i), i + 1>>, LAMBDA r :
         (CASE r[1] = "." -> "" [] r[1] = "," -> "." [] OTHER -> r[1])
         \o CleanQty(s, r[2]))

parse_qty_kwh_token(tok) ==
  IF tok = "" THEN 0
  ELSE Let(Strip(tok), LAMBDA t :
         Let(CleanQty(t, 0), LAMBDA c :
           IF IsFloat(c) THEN DecimalVal(c, 0, Len(c)) ELSE 0))

(***************************************************************************)
(* Token scanners: the two regular expressions                             *)
(***************************************************************************)
\* the end of the greedy (?:\.\d{3})* that starts at j
RECURSIVE ThousandsEnd(_, _)
ThousandsEnd(s, j) ==
  IF At(s, j) = "." /\ IsDigitAt(s, j + 1) /\ IsDigitAt(s, j + 2) /\ IsDigitAt(s, j + 3)
  THEN Let(j + 4, LAMBDA k : ThousandsEnd(s, k)) ELSE j

\* the end of the greedy \d{1,3} that starts at j (j itself if no digit)
Digits3End(s, j) ==
  IF ~IsDigitAt(s, j) THEN j
  ELSE IF ~IsDigitAt(s, j + 1) THEN j + 1
  ELSE IF ~IsDigitAt(s, j + 2) THEN j + 2
  ELSE j + 3

\* -?\d{1,3}(?:\.\d{3})*(?:,\d{2}) matched at i: the end of the match, -1 if
\* none.  No shorter choice of the greedy parts can be followed by the
\* comma, so the greedy choice decides.
MatchMonetaryAt(s, i) ==
  Let(IF At(s, i) = "-" THEN i + 1 ELSE i, LAMBDA j0 :
    Let(Digits3End(s, j0), LAMBDA j1 :
      Let(ThousandsEnd(s, j1), LAMBDA j2 :
        IF j1 > j0 /\ At(s, j2) = "," /\ IsDigitAt(s, j2 + 1) /\ IsDigitAt(s, j2 + 2)
        THEN j2 + 3 ELSE -1)))

\* -?\d{1,3}(?:\.\d{3})*(?:,\d{1,2})? matched at i
MatchQtyAt(s, i) ==
  Let(IF At(s, i) = "-" THEN i + 1 ELSE i, LAMBDA j0 :
    Let(Digits3End(s, j0), LAMBDA j1 :
      Let(ThousandsEnd(s, j1), LAMBDA j2 :
        IF j1 = j0 THEN -1
        ELSE IF At(s, j2) = "," /\ IsDigitAt(s, j2 + 1)
             THEN (IF IsDigitAt(s, j2 + 2) THEN j2 + 3 ELSE j2 + 2)
        ELSE j2)))

\* re.findall of the monetary pattern in s[i:]: the matched substrings, left
\* to right
RECURSIVE FindAllMonetary(_, _)
FindAllMonetary(s, i) ==
  Let(First(LAMBDA k : MatchMonetaryAt(s, k) # -1, i, Len(s) - 1), LAMBDA b :
    IF b = -1 THEN <<>>
    ELSE Let(MatchMonetaryAt(s, b), LAMBDA e :
           <<Slice(s, b, e)>> \o FindAllMonetary(s, e)))

RECURSIVE FindAllQty(_, _)
FindAllQty(s, i) ==
  Let(First(LAMBDA k : MatchQtyAt(s, k) # -1, i, Len(s) - 1), LAMBDA b :
    IF b = -1 THEN <<>>
    ELSE Let(MatchQtyAt(s, b), LAMBDA e :
           <<Slice(s, b, e)>> \o FindAllQty(s, e)))

find_monetary_in_line(line) ==
  Let(FindAllMonetary(line, 0), LAMBDA m : [k \in 1..Len(m) |-> parse_currency(m[k])])

find_qty_candidates(line) ==
  Let(FindAllQty(line, 0), LAMBDA m : [k \in 1..Len(m) |-> parse_qty_kwh_token(m[k])])

(***************************************************************************)
(* extract_invoice_items_block                                             *)
(***************************************************************************)
StartMarker == "ENERGIA ELET CONSUMO"

EndMarker == "CONT ILUMIN PUBLICA MUNICIPIO"

FallbackStartMarker == "ENERGIA ELET"

FallbackEndMarker == "ILUMIN"

\* start_idx == -1 or end_idx == -1 or end_idx <= start_idx
MarkersFail(start_idx, end_idx) ==
  start_idx = -1 \/ end_idx = -1 \/ end_idx <= start_idx

\* [l for l in ls if l.strip()]
NonBlank(ls) == SelectSeq(ls, LAMBDA l : Strip(l) # "")

\* [l.strip() for l in ls]
StripAll(ls) == [k \in 1..Len(ls) |-> Strip(ls[k])]

\* text[start_idx:end_idx + len("CONT ILUMIN PUBLICA MUNICIPIO")]: the same
\* length is added after either end marker
BlockSpan(text, start_idx, end_idx) ==
  Slice(text, start_idx, end_idx + Len(EndMarker))

\* the non-empty lines of a block, trimmed
BlockLines(block) ==
  Let(SplitLines(block), LAMBDA ls : Let(NonBlank(ls), LAMBDA nb : StripAll(nb)))

extract_invoice_items_block(text) ==
  Let(Upper(text), LAMBDA up :
    Let(<<Find(up, StartMarker), Find(up, EndMarker)>>, LAMBDA m1 :
      IF ~MarkersFail(m1[1], m1[2])
      THEN Let(BlockSpan(text, m1[1], m1[2]), BlockLines)
      ELSE Let(<<Find(up, FallbackStartMarker), Find(up, FallbackEndMarker)>>, LAMBDA m2 :
             IF ~MarkersFail(m2[1], m2[2])
             THEN Let(BlockSpan(text, m2[1], m2[2]), BlockLines)
             ELSE Let(SplitLines(text), NonBlank))))

(***************************************************************************)
(* classify_and_sum_lines: one line                                        *)
(***************************************************************************)
HeaderWords ==
  {"ENERGIA", "KWH", "UN", "ICMS", "PIS", "COFINS", "HISTÓRICO", "CONSUMO"}

\* re.match(r'^(ENERGIA|KWH|...)', up) and len(line.split()) < 3
IsHeaderLine(line) ==
  /\ Let(Upper(line), LAMBDA up : \E w \in HeaderWords : StartsAt(up, w, 0))
  /\ WordCount(line) < 3

\* ColumnsOf with the tie-break of two tokens made strict
ColumnsOfStrict(v) ==
  IF Len(v) >= 3
  THEN [valor |-> v[Len(v) - 2], pis |-> 0, cofins |-> 0, icms |-> v[Len(v)]]
  ELSE IF Len(v) = 2
  THEN Let(IF v[2] < v[1] THEN v[2] ELSE 0, LAMBDA icms :
         [valor |-> v[1], pis |-> 0, cofins |-> IF icms = 0 THEN v[2] ELSE 0,
          icms |-> icms])
  ELSE IF Len(v) = 1
  THEN [valor |-> v[1], pis |-> 0, cofins |-> 0, icms |-> 0]
  ELSE [valor |-> 0, pis |-> 0, cofins |-> 0, icms |-> 0]

\* the 3-or-more / 2 / 1 / 0 monetary-token cases, on the parsed tokens
ColumnsOf(v) ==
  IF Len(v) >= 3
  THEN [valor |-> v[Len(v) - 2], pis |-> 0, cofins |-> 0, icms |-> v[Len(v)]]
  ELSE IF Len(v) = 2
  THEN Let(IF v[2] <= v[1] THEN v[2] ELSE 0, LAMBDA icms :
         [valor |-> v[1], pis |-> 0, cofins |-> IF icms = 0 THEN v[2] ELSE 0,
          icms |-> icms])
  ELSE IF Len(v) = 1
  THEN [valor |-> v[1], pis |-> 0, cofins |-> 0, icms |-> 0]
  ELSE [valor |-> 0, pis |-> 0, cofins |-> 0, icms |-> 0]

\* the columns of a line from its monetary matches
Columns(monetary) ==
  Let([k \in 1..Len(monetary) |-> parse_currency(monetary[k])], ColumnsOf)

\* max(qtys, key=abs): the first of the candidates of largest magnitude
PickQty(qtys) ==
  IF qtys = <<>> THEN 0
  ELSE qtys[CHOOSE k \in 1..Len(qtys) :
              /\ \A j \in 1..Len(qtys) : Abs(qtys[j]) <= Abs(qtys[k])
              /\ \A j \in 1..(k - 1) : Abs(qtys[j]) < Abs(qtys[k])]

\* re.search of a.*b.*c: the parts in this order, each after the end of the
\* one before
SearchInOrder(up, a, b, c) ==
  Let(Find(up, a), LAMBDA i :
    /\ i # -1
    /\ Let(FindFrom(up, b, i + Len(a)), LAMBDA j :
         /\ j # -1
         /\ FindFrom(up, c, j + Len(b)) # -1))

\* ENERGIA INJ\..*OUC MPT.*TE|ENERGIA INJ\..*OUC MPT.*TUS|ENERGIA INJ\..*TUSD
MatchesInjetada(up) ==
  \/ SearchInOrder(up, "ENERGIA INJ.", "OUC MPT", "TE")
  \/ SearchInOrder(up, "ENERGIA INJ.", "OUC MPT", "TUS")
  \/ SearchInOrder(up, "ENERGIA INJ.", "", "TUSD")

\* "ENERGIA ELET" in up
MatchesConsumo(up) == Contains(up, "ENERGIA ELET")

\* "ENERGIA CONS. B." in up or up.startswith("ENERGIA CONS. B")
MatchesBandeConsumida(up) ==
  Contains(up, "ENERGIA CONS. B.") \/ StartsAt(up, "ENERGIA CONS. B", 0)

\* "ENERGIA INJ. BAND" in up or "ENERGIA INJ. BAND." in up
MatchesBandeComp(up) ==
  Contains(up, "ENERGIA INJ. BAND") \/ Contains(up, "ENERGIA INJ. BAND.")

\* BucketOf with the flag-compensated branch tried before the injected one
BucketOfBandFirst(up) ==
  IF MatchesConsumo(up) THEN "consumo"
  ELSE IF MatchesBandeComp(up) THEN "bande_compensada"
  ELSE IF MatchesInjetada(up) THEN "injetada"
  ELSE IF MatchesBandeConsumida(up) THEN "bande_consumida"
  ELSE "outros"

\* the if / elif chain on the upper-cased description
BucketOf(up) ==
  IF MatchesConsumo(up) THEN "consumo"
  ELSE IF MatchesInjetada(up) THEN "injetada"
  ELSE IF MatchesBandeConsumida(up) THEN "bande_consumida"
  ELSE IF MatchesBandeComp(up) THEN "bande_compensada"
  ELSE "outros"

Bucket(line) == Let(Upper(line), BucketOf)

\* the fields parsed from one line before it is classified
ParseLine(line) ==
  Let(<<Let(FindAllMonetary(line, 0), Columns), Let(find_qty_candidates(line), PickQty)>>,
      LAMBDA r : [qtd |-> r[2], valor |-> r[1].valor, pis |-> r[1].pis,
                  cofins |-> r[1].cofins, icms |-> r[1].icms])

ZeroBucket == [qtd |-> 0, valor |-> 0, pis |-> 0, cofins |-> 0, icms |-> 0]

\* AddSigned with each line rounded to whole units before it is added
AddSignedRounded(d, f) ==
  [qtd |-> d.qtd + Round(f.qtd, 0), valor |-> d.valor + Round(f.valor, 0),
   pis |-> d.pis + f.pis, cofins |-> d.cofins + f.cofins, icms |-> d.icms + f.icms]

\* the += of a signed bucket
AddSigned(d, f) ==
  [qtd |-> d.qtd + f.qtd, valor |-> d.valor + f.valor, pis |-> d.pis + f.pis,
   cofins |-> d.cofins + f.cofins, icms |-> d.icms + f.icms]

\* AddAbs without the abs()
AddAbsSigned(d, f) ==
  [qtd |-> d.qtd + f.qtd, valor |-> d.valor + f.valor, pis |-> d.pis + f.pis,
   cofins |-> d.cofins + f.cofins, icms |-> d.icms + f.icms]

\* the += of a bucket that takes abs(qtd) and abs(valor)
AddAbs(d, f) ==
  [qtd |-> d.qtd + Abs(f.qtd), valor |-> d.valor + Abs(f.valor), pis |-> d.pis + f.pis,
   cofins |-> d.cofins + f.cofins, icms |-> d.icms + f.icms]

\* AddOutrosValor taking the tax column of the line as well
AddOutrosWithIcms(d, f) == [valor |-> d.valor + f.valor + f.icms]

\* outros["valor"] += valor
AddOutrosValor(d, f) == [valor |-> d.valor + f.valor]

\* round(d[k], 2) for every key of a bucket
RoundBucket(d) ==
  [qtd |-> Round(d.qtd, 2), valor |-> Round(d.valor, 2), pis |-> Round(d.pis, 2),
   cofins |-> Round(d.cofins, 2), icms |-> Round(d.icms, 2)]

(***************************************************************************)
(* extract_tax_block_values                                                *)
(***************************************************************************)
TaxLookahead == 200

TaxWindow == 400

\* ICMS[\s\S]{0,200}PIS matches at i
IcmsPisAt(s, i) ==
  /\ StartsAt(s, "ICMS", i)
  /\ Let(FindFrom(s, "PIS", i + 4), LAMBDA j : j # -1 /\ j <= i + 4 + TaxLookahead)

\* re.search(r"(ICMS[\s\S]{0,200}PIS)", text_up).start(), -1 if no match
SearchIcmsPis(s) == First(LAMBDA k : IcmsPisAt(s, k), 0, Len(s) - 1)

\* the end of the greedy [^\d\-]* that starts at j
NonNumberEnd(s, j) ==
  Let(First(LAMBDA k : IsDigitAt(s, k) \/ At(s, k) = "-", j, Len(s) - 1), LAMBDA e :
    IF e = -1 THEN Len(s) ELSE e)

\* label[^\d\-]*(monetary) matches at i, ignoring case.  The monetary
\* pattern can only start where [^\d\-]* must stop, so a label matches or
\* fails on the first digit or hyphen after it.
LabelledAt(text, up, label, i) ==
  /\ StartsAt(up, label, i)
  /\ Let(NonNumberEnd(text, i + Len(label)), LAMBDA j : MatchMonetaryAt(text, j) # -1)

\* re.search(label + r"[^\d\-]*(monetary)", text, re.IGNORECASE): group 1
\* parsed, 0 if no match
TaxProbe(text, label) ==
  Let(Upper(text), LAMBDA up :
    Let(First(LAMBDA k : LabelledAt(text, up, label, k), 0, Len(text) - 1), LAMBDA i :
      IF i = -1 THEN 0
      ELSE Let(NonNumberEnd(text, i + Len(label)), LAMBDA j :
             Let(Slice(text, j, MatchMonetaryAt(text, j)), parse_currency))))

\* LastThree taking the first three matches of the window
FirstThree(vals) ==
  [icms   |-> Round(parse_currency(vals[1]), 2),
   cofins |-> Round(parse_currency(vals[2]), 2),
   pis    |-> Round(parse_currency(vals[3]), 2)]

\* the last three monetary matches of the window as icms, cofins, pis
LastThree(vals) ==
  [icms   |-> Round(parse_currency(vals[Len(vals) - 2]), 2),
   cofins |-> Round(parse_currency(vals[Len(vals) - 1]), 2),
   pis    |-> Round(parse_currency(vals[Len(vals)]), 2)]

\* the three single probes of the fallback
ProbeEach(text) ==
  [icms   |-> Round(TaxProbe(text, "ICMS"), 2),
   cofins |-> Round(TaxProbe(text, "COFINS"), 2),
   pis    |-> Round(TaxProbe(text, "PIS"), 2)]

extract_tax_block_values(text) ==
  Let(Upper(text), LAMBDA text_up :
    Let(SearchIcmsPis(text_up), LAMBDA m :
      IF m = -1 THEN ProbeEach(text)
      ELSE Let(Slice(text_up, m, m + TaxWindow), LAMBDA snippet :
             Let(FindAllMonetary(snippet, 0), LAMBDA vals :
               IF Len(vals) >= 3 THEN LastThree(vals) ELSE ProbeEach(text)))))

(***************************************************************************)
(* upload_pdf: the result record                                           *)
(***************************************************************************)
\* ResultBucket reporting the per-line tax sums of the bucket
ResultBucketPerLine(d, tx) ==
  [qtd_kwh |-> Round(d.qtd, 3), valor |-> Round(d.valor, 2),
   pis |-> d.pis, cofins |-> d.cofins, icms |-> d.icms]

\* one bucket of the result: its own quantity and value, the taxes of the
\* tax block
ResultBucket(d, tx) ==
  [qtd_kwh |-> Round(d.qtd, 3), valor |-> Round(d.valor, 2),
   pis |-> tx.pis, cofins |-> tx.cofins, icms |-> tx.icms]

\* the buckets of the result (tarifa_unit and dados_fatura, which no bucket
\* figure depends on, are left out)
BuildResult(s, tx) ==
  [energia_injetada |-> ResultBucket(s.injetada, tx),
   consumo_kwh      |-> ResultBucket(s.consumo, tx),
   bandeira         |-> [consumida  |-> ResultBucket(s.bande_consumida, tx),
                         compensada |-> ResultBucket(s.bande_compensada, tx)],
   outros_valores   |-> [valor |-> Round(s.outros.valor, 2)]]

(***************************************************************************)
(* The documents                                                           *)
(***************************************************************************)
MaxLines == 2

MaxTaxLines == 2

Dots10 == ".........."

Dots50 == Dots10 \o Dots10 \o Dots10 \o Dots10 \o Dots10

\* 200 characters that carry nothing
Filler == Dots50 \o Dots50 \o Dots50 \o Dots50

ItemsLine == "ENERGIA ELET CONSUMO kWh 350 0,75000 262,50 15,00 20,00"

TaxLine == "ICMS 300,00 50,00 PIS"

\* lines of the items table and around it
LinePool ==
  { ItemsLine,
    "ENERGIA INJ. OUC MPT TE -120 -60,00 -3,00",
    "ENERGIA INJ. TUSD -80 -40,25",
    "ENERGIA INJ. BAND. VERMELHA -12 -7,50 1,00",
    "ENERGIA INJ. BAND. AMARELA TUSD -9 -1,50",
    "ENERGIA CONS. B. AMARELA 35 -5,00 -5,00",
    "CONT ILUMIN PUBLICA MUNICIPIO 45,67",
    "ILUMIN PUB 3,00 9,99 MULTA",
    "COFINS 4,00",
    "  juros ",
    " ",
    TaxLine }

\* lines of the tax block, "PIS" 200 and 201 characters after "ICMS" in the
\* longest two
TaxPool ==
  { TaxLine,
    "ICMS BASE 10,00 20,00 5,50 PIS",
    "ICMS" \o Filler \o "PIS 7,00 8,00 9,00",
    "ICMS" \o Filler \o ".PIS 7,00 8,00 9,00" }

RECURSIVE JoinLines(_, _)
JoinLines(ls, k) ==
  IF k = Len(ls) THEN ls[k] ELSE ls[k] \o "\n" \o JoinLines(ls, k + 1)

\* the documents of at most max lines of a pool
DocumentsOf(pool, max) ==
  {JoinLines(ls, 1) : ls \in UNION {[1..k -> pool] : k \in 1..max}}

\* "\n".join(pages) of the extracted text
Documents == DocumentsOf(LinePool, MaxLines) \cup DocumentsOf(TaxPool, MaxTaxLines)

(***************************************************************************)
(* The pipeline of upload_pdf as a state machine                           *)
(***************************************************************************)
VARIABLES
  full_text,    \* the text of the document
  pc,           \* where upload_pdf stands
  lines_block,  \* the lines of the items block
  n,            \* how many of them the loop has taken
  last,         \* the branch and the parsed fields of the line taken last
  sums,         \* the five accumulators
  roundings,    \* how many times round() has been applied to the accumulators
  taxes,        \* the figures of the tax block
  result        \* the record returned

vars == <<full_text, pc, lines_block, n, last, sums, roundings, taxes, result>>

ZeroSums ==
  [consumo |-> ZeroBucket, injetada |-> ZeroBucket, bande_consumida |-> ZeroBucket,
   bande_compensada |-> ZeroBucket, outros |-> [valor |-> 0]]

NoLine == [branch |-> "none", qtd |-> 0, valor |-> 0, pis |-> 0, cofins |-> 0, icms |-> 0]

Init ==
  /\ full_text \in Documents
  /\ pc = "upload"
  /\ lines_block = <<>>
  /\ n = 0
  /\ last = NoLine
  /\ sums = ZeroSums
  /\ roundings = 0
  /\ taxes = [icms |-> 0, cofins |-> 0, pis |-> 0]
  /\ result = <<>>

\* if not full_text.strip(): raise HTTPException(400)
RejectEmpty ==
  /\ pc = "upload"
  /\ Strip(full_text) = ""
  /\ pc' = "rejected"
  /\ UNCHANGED <<full_text, lines_block, n, last, sums, roundings, taxes, result>>

\* lines_block = extract_invoice_items_block(full_text)
LocateBlock ==
  /\ pc = "upload"
  /\ Strip(full_text) # ""
  /\ lines_block' = extract_invoice_items_block(full_text)
  /\ pc' = "classify"
  /\ UNCHANGED <<full_text, n, last, sums, roundings, taxes, result>>

\* the line the loop takes next
Line == lines_block[n + 1]

Looping == pc = "classify" /\ n < Len(lines_block)

\* the fields of the line taken, with the branch it reaches
Taken(branch, f) ==
  [branch |-> branch, qtd |-> f.qtd, valor |-> f.valor, pis |-> f.pis,
   cofins |-> f.cofins, icms |-> f.icms]

\* continue
SkipHeader ==
  /\ Looping
  /\ IsHeaderLine(Line)
  /\ n' = n + 1
  /\ last' = [last EXCEPT !.branch = "skipped"]
  /\ UNCHANGED <<full_text, pc, lines_block, sums, roundings, taxes, result>>

\* a line that is not skipped reaches the branch b of the if / elif chain
Reaches(b) ==
  /\ Looping
  /\ ~IsHeaderLine(Line)
  /\ Bucket(Line) = b

\* the loop moves on from a line of fields f that reached the branch b
Take(b, f) ==
  /\ n' = n + 1
  /\ last' = Taken(b, f)
  /\ UNCHANGED <<full_text, pc, lines_block, roundings, taxes, result>>

AddConsumo ==
  /\ Reaches("consumo")
  /\ \E f \in {ParseLine(Line)} :
       /\ Take("consumo", f)
       /\ sums' = [sums EXCEPT !.consumo = AddSigned(@, f)]

AddInjetada ==
  /\ Reaches("injetada")
  /\ \E f \in {ParseLine(Line)} :
       /\ Take("injetada", f)
       /\ sums' = [sums EXCEPT !.injetada = AddAbs(@, f)]

AddBandeConsumida ==
  /\ Reaches("bande_consumida")
  /\ \E f \in {ParseLine(Line)} :
       /\ Take("bande_consumida", f)
       /\ sums' = [sums EXCEPT !.bande_consumida = AddSigned(@, f)]

AddBandeComp ==
  /\ Reaches("bande_compensada")
  /\ \E f \in {ParseLine(Line)} :
       /\ Take("bande_compensada", f)
       /\ sums' = [sums EXCEPT !.bande_compensada = AddAbs(@, f)]

AddOutros ==
  /\ Reaches("outros")
  /\ \E f \in {ParseLine(Line)} :
       /\ Take("outros", f)
       /\ sums' = [sums EXCEPT !.outros = AddOutrosValor(@, f)]

\* the rounding loop that ends classify_and_sum_lines
RoundSums ==
  /\ pc = "classify"
  /\ n = Len(lines_block)
  /\ sums' = [consumo          |-> RoundBucket(sums.consumo),
              injetada         |-> RoundBucket(sums.injetada),
              bande_consumida  |-> RoundBucket(sums.bande_consumida),
              bande_compensada |-> RoundBucket(sums.bande_compensada),
              outros           |-> [valor |-> Round(sums.outros.valor, 2)]]
  /\ roundings' = roundings + 1
  /\ pc' = "taxes"
  /\ UNCHANGED <<full_text, lines_block, n, last, taxes, result>>

\* taxes = extract_tax_block_values(full_text)
ExtractTaxes ==
  /\ pc = "taxes"
  /\ taxes' = extract_tax_block_values(full_text)
  /\ pc' = "assemble"
  /\ UNCHANGED <<full_text, lines_block, n, last, sums, roundings, result>>

\* result = {...}; return result
AssembleResult ==
  /\ pc = "assemble"
  /\ result' = BuildResult(sums, taxes)
  /\ roundings' = roundings + 1
  /\ pc' = "done"
  /\ UNCHANGED <<full_text, lines_block, n, last, sums, taxes>>

Next ==
  \/ RejectEmpty
  \/ LocateBlock
  \/ SkipHeader
  \/ AddConsumo
  \/ AddInjetada
  \/ AddBandeConsumida
  \/ AddBandeComp
  \/ AddOutros
  \/ RoundSums
  \/ ExtractTaxes
  \/ AssembleResult

Spec == Init /\ [][Next]_vars


(***************************************************************************)
(* Properties                                                              *)
(***************************************************************************)
NamedBuckets == {"consumo", "injetada", "bande_consumida", "bande_compensada"}

\* the rules of the priority order, first to last
PriorityOrder == <<"consumo", "injetada", "bande_consumida", "bande_compensada", "outros">>

\* whether a rule matches a line, each rule as the classifier tests it
RuleMatches(rule, up) ==
  CASE rule = "consumo"          -> MatchesConsumo(up)
    [] rule = "injetada"         -> MatchesInjetada(up)
    [] rule = "bande_consumida"  -> MatchesBandeConsumida(up)
    [] rule = "bande_compensada" -> MatchesBandeComp(up)
    [] rule = "outros"           -> TRUE

\* the bucket of the first rule of the priority order that matches the line
FirstMatching(line) ==
  Let(Upper(line), LAMBDA up :
    Let([i \in 1..5 |-> RuleMatches(PriorityOrder[i], up)], LAMBDA matches :
      PriorityOrder[CHOOSE i \in 1..5 :
                      matches[i] /\ \A j \in 1..(i - 1) : ~matches[j]]))

\* what a line assigned to a bucket contributes to a field of it: the
\* magnitude of quantity and value in the two credit buckets, the signed
\* figure otherwise; the "other" bucket has a value only
Contribution(b, field, f) ==
  IF b = "outros" /\ field # "valor" THEN 0
  ELSE IF b \in {"injetada", "bande_compensada"} /\ field \in {"qtd", "valor"}
  THEN Abs(f[field])
  ELSE f[field]

\* a bucket with the contributions of a line assigned to it added
WithLine(d, b, f) == [field \in DOMAIN d |-> d[field] + Contribution(b, field, f)]

\* for every bucket, the sums of the contributions of the non-skipped lines
\* among the first k that are assigned to it
RECURSIVE AssignedSums(_)
AssignedSums(k) ==
  IF k = 0 THEN ZeroSums
  ELSE Let(AssignedSums(k - 1), LAMBDA rest :
         IF IsHeaderLine(lines_block[k]) THEN rest
         ELSE Let(<<FirstMatching(lines_block[k]), ParseLine(lines_block[k])>>, LAMBDA a :
                [rest EXCEPT ![a[1]] = WithLine(@, a[1], a[2])]))

\* C1: while the lines are classified, the line taken last went to the bucket
\* of the first rule of the priority order that matches it, and every field of
\* every bucket is the sum of the contributions of exactly the lines taken so
\* far that are assigned to that bucket (so a line changes its own bucket
\* only).
C1_FirstMatchingBucketOnly ==
  pc = "classify" =>
    /\ (n > 0 /\ last.branch # "skipped") => last.branch = FirstMatching(lines_block[n])
    /\ sums = AssignedSums(n)

\* a line that two rules match has gone to the earlier one, after a line of
\* another bucket
C1_Witness ==
  /\ pc = "classify"
  /\ n = 2
  /\ last.branch = "injetada"
  /\ Contains(Upper(lines_block[n]), "ENERGIA INJ. BAND")
  /\ sums.injetada.valor > 0
  /\ sums.consumo.valor > 0
  /\ sums.bande_compensada.valor = 0

\* the columns the rule of the monetary tokens v of a line gives
TokenRule(v, f) ==
  LET k == Len(v) IN
  /\ k >= 3 => f.valor = v[k - 2] /\ f.icms = v[k]
  /\ k = 2 => /\ f.valor = v[1]
              /\ v[2] <= v[1] => f.icms = v[2] /\ f.cofins = 0 /\ f.pis = 0
              /\ v[2] > v[1] => f.icms = 0 /\ f.cofins = v[2]
  /\ k = 1 => f.valor = v[1] /\ f.pis = 0 /\ f.cofins = 0 /\ f.icms = 0
  /\ k = 0 => f.valor = 0 /\ f.pis = 0 /\ f.cofins = 0 /\ f.icms = 0

\* C2: the value and the tax fields of every line that is taken follow from
\* the number of its monetary tokens: the third-from-last and the last of
\* three or more; of two, the first is the value and the last is ICMS iff it
\* is <= the value, the PIS/COFINS contribution otherwise; one token is the
\* value alone; none gives zeros.
C2_ColumnsByTokenCount ==
  (pc = "classify" /\ n > 0 /\ last.branch \notin {"none", "skipped"}) =>
    TokenRule(find_monetary_in_line(lines_block[n]), last)

\* the tie: two equal tokens, the last one taken as ICMS
C2_Witness ==
  /\ pc = "classify"
  /\ n > 0
  /\ last.branch = "bande_consumida"
  /\ LET v == find_monetary_in_line(lines_block[n])
     IN  Len(v) = 2 /\ v[1] = v[2] /\ last.icms = v[2] /\ last.icms # 0

\* the quantity and value accumulators of the two credit buckets
CreditsNonNegative ==
  \A b \in {"injetada", "bande_compensada"} : sums[b].qtd >= 0 /\ sums[b].valor >= 0

\* a line taken into a named bucket adds its magnitude to a credit bucket and
\* its signed figure to a consumption bucket
AddsBySign ==
  (n' = n + 1 /\ last'.branch \in NamedBuckets) =>
    LET b == last'.branch IN
    /\ b \in {"injetada", "bande_compensada"} =>
         /\ sums'[b].qtd = sums[b].qtd + Abs(last'.qtd)
         /\ sums'[b].valor = sums[b].valor + Abs(last'.valor)
    /\ b \in {"consumo", "bande_consumida"} =>
         /\ sums'[b].qtd = sums[b].qtd + last'.qtd
         /\ sums'[b].valor = sums[b].valor + last'.valor

\* C3: injected-energy and flag-compensated lines add the absolute value of
\* quantity and value, consumed-energy and flag-consumed lines add them with
\* their sign, and the quantity and value of the two credit buckets are never
\* negative.
C3_CreditsAbsolute == [][AddsBySign]_vars /\ []CreditsNonNegative

\* a negative injected line has been added to a positive accumulator, and a
\* negative flag-consumed line has made its bucket negative
C3_Witness ==
  /\ pc = "classify"
  /\ last.branch = "injetada"
  /\ last.valor < 0
  /\ last.qtd < 0
  /\ sums.injetada.valor = -last.valor
  /\ sums.injetada.qtd = -last.qtd
  /\ sums.bande_consumida.valor < 0

\* the non-empty trimmed lines of the span of the text from the first start
\* marker through the last character of the first end marker
MarkedSpan(text, start_marker, end_marker) ==
  LET up == Upper(text)
      s0 == Find(up, start_marker)
      e0 == Find(up, end_marker)
  IN  BlockLines(Slice(text, s0, e0 + Len(end_marker)))

\* both markers occur, the first start before the first end
MarkersFound(text, start_marker, end_marker) ==
  LET up == Upper(text)
      s0 == Find(up, start_marker)
      e0 == Find(up, end_marker)
  IN  s0 # -1 /\ e0 # -1 /\ s0 < e0

\* C4: the block is the lines of the span between the primary markers, ended
\* by the last character of "CONT ILUMIN PUBLICA MUNICIPIO"; failing those,
\* of the span between "ENERGIA ELET" and "ILUMIN", ended by the last
\* character of "ILUMIN" with nothing after it; failing those, every
\* non-empty line of the document.
C4_SpanEndsWithEndMarker ==
  pc \in {"classify", "taxes", "assemble", "done"} =>
    lines_block =
      IF MarkersFound(full_text, StartMarker, EndMarker)
      THEN MarkedSpan(full_text, StartMarker, EndMarker)
      ELSE IF MarkersFound(full_text, FallbackStartMarker, FallbackEndMarker)
      THEN MarkedSpan(full_text, FallbackStartMarker, FallbackEndMarker)
      ELSE NonBlank(SplitLines(full_text))

\* the least element of a non-empty set of positions
Least(S) == CHOOSE i \in S : \A j \in S : i <= j

\* the positions of the text where "ICMS" stands with a "PIS" that begins at
\* most `TaxLookahead` characters after its end
IcmsBeforePis(up) ==
  {i \in 0..(Len(up) - 1) :
     /\ StartsAt(up, "ICMS", i)
     /\ \E j \in (i + 4)..(i + 4 + TaxLookahead) : StartsAt(up, "PIS", j)}

\* the monetary tokens of the window of the text that starts at the first
\* such "ICMS"
WindowTokens(up) ==
  IF IcmsBeforePis(up) = {} THEN <<>>
  ELSE LET i == Least(IcmsBeforePis(up))
       IN  find_monetary_in_line(Slice(up, i, i + TaxWindow))

\* the positions where a monetary token follows the label at i with neither a
\* digit nor a hyphen between the two
TokensAfter(text, label, i) ==
  {j \in (i + Len(label))..(Len(text) - 1) :
     /\ MatchMonetaryAt(text, j) # -1
     /\ \A k \in (i + Len(label))..(j - 1) : ~IsDigitAt(text, k) /\ At(text, k) # "-"}

\* the monetary token that immediately follows the first occurrence of the
\* label that has one, 0 if there is none
Labelled(text, label) ==
  LET up   == Upper(text)
      hits == {i \in 0..(Len(text) - 1) :
                 StartsAt(up, label, i) /\ TokensAfter(text, label, i) # {}}
  IN  IF hits = {} THEN 0
      ELSE LET j == Least(TokensAfter(text, label, Least(hits)))
           IN  parse_currency(Slice(text, j, MatchMonetaryAt(text, j)))

\* C5: when "ICMS" is followed within 200 characters by "PIS" and the window
\* that starts at that "ICMS" holds three monetary tokens or more, the taxes
\* are the last three tokens of the window as icms, cofins, pis; otherwise
\* each is the first monetary token immediately after its own label, 0 when
\* there is none.
C5_TaxBlockValues ==
  pc = "assemble" =>
    LET v == WindowTokens(Upper(full_text))
        k == Len(v)
    IN  IF k >= 3
        THEN taxes = [icms |-> v[k - 2], cofins |-> v[k - 1], pis |-> v[k]]
        ELSE taxes = [icms   |-> Labelled(full_text, "ICMS"),
                      cofins |-> Labelled(full_text, "COFINS"),
                      pis    |-> Labelled(full_text, "PIS")]

\* a window of five tokens has given its last three
C5_Witness ==
  /\ pc = "assemble"
  /\ full_text = TaxLine \o "\n" \o "ICMS BASE 10,00 20,00 5,50 PIS"
  /\ Len(WindowTokens(Upper(full_text))) = 5
  /\ taxes = [icms |-> 10 * Scale, cofins |-> 20 * Scale, pis |-> 11 * (Scale \div 2)]

\* "ENERGIA INJ." with a later "OUC MPT" and a "TE", "TUS" or "TUSD" after it
InjectedCombination(up) ==
  \E marker \in {"TE", "TUS", "TUSD"} : SearchInOrder(up, "ENERGIA INJ.", "OUC MPT", marker)

\* C9: a line without "ENERGIA ELET" goes to the injected-energy bucket iff
\* it holds "ENERGIA INJ." with "OUC MPT" and a following TE, TUS or TUSD; a
\* line without "OUC MPT" is never injected energy, and a line with "ENERGIA
\* INJ. BAND" that lacks the combination goes to the flag-compensated bucket.
C9_InjectedNeedsOucMpt ==
  (n > 0 /\ last.branch \notin {"none", "skipped"}) =>
    LET up == Upper(lines_block[n]) IN
    ~Contains(up, "ENERGIA ELET") =>
      /\ last.branch = "injetada" <=> InjectedCombination(up)
      /\ ~Contains(up, "OUC MPT") => last.branch # "injetada"
      /\ (Contains(up, "ENERGIA INJ. BAND") /\ ~InjectedCombination(up)) =>
           last.branch = "bande_compensada"

\* C10: a line is skipped only if it has fewer than 3 words, begins with a
\* word of the financial vocabulary and carries no monetary token; a skipped
\* line changes no accumulator; a line with a monetary token is never
\* skipped.
C10_NoMoneySkipped ==
  (n > 0 /\ last.branch = "skipped") =>
    /\ WordCount(lines_block[n]) < 3
    /\ \E w \in HeaderWords : StartsAt(Upper(lines_block[n]), w, 0)
    /\ FindAllMonetary(lines_block[n], 0) = <<>>
    /\ pc = "classify" => sums = AssignedSums(n - 1)

\* the document of the end-to-end scenario, the items line before the tax
\* block and after it
ItemsThenTax == ItemsLine \o "\n" \o TaxLine

TaxThenItems == TaxLine \o "\n" \o ItemsLine

\* the four named buckets of the result
ResultBuckets ==
  [consumo          |-> result.consumo_kwh,
   injetada         |-> result.energia_injetada,
   bande_consumida  |-> result.bandeira.consumida,
   bande_compensada |-> result.bandeira.compensada]

\* every bucket of the result reports the given taxes
ReportsTaxes(tx) ==
  \A b \in NamedBuckets :
    /\ ResultBuckets[b].icms = tx.icms
    /\ ResultBuckets[b].cofins = tx.cofins
    /\ ResultBuckets[b].pis = tx.pis

\* the consumed energy of the scenario: 350.0 kWh, 262.50
ReportsConsumption ==
  /\ result.consumo_kwh.qtd_kwh = 350 * Scale
  /\ result.consumo_kwh.valor = 525 * (Scale \div 2)

\* C6 as stated: the scenario reports 350.0 kWh, 262.50 and the taxes
\* icms=300.00, cofins=0.00, pis=50.00 in every bucket.
C6_ScenarioPis50 ==
  (pc = "done" /\ full_text \in {ItemsThenTax, TaxThenItems}) =>
    /\ ReportsConsumption
    /\ taxes = [icms |-> 300 * Scale, cofins |-> 0, pis |-> 50 * Scale]
    /\ ReportsTaxes(taxes)

\* C6: the scenario reports 350.0 kWh and 262.50, and every bucket reports
\* the taxes of the tax-block extractor, never the 15,00 / 20,00 of the line
\* as such; with the items line first the window of the tax block holds two
\* tokens only, so each tax comes from its own label: icms=300.00,
\* cofins=0.00 and pis=0.00, nothing following "PIS"; with the tax block
\* first the window runs over the items line and its last three tokens are
\* icms=262.50, cofins=15.00, pis=20.00.
C6_ScenarioPis0 ==
  (pc = "done" /\ full_text \in {ItemsThenTax, TaxThenItems}) =>
    /\ ReportsConsumption
    /\ ReportsTaxes(taxes)
    /\ full_text = ItemsThenTax =>
         taxes = [icms |-> 300 * Scale, cofins |-> 0, pis |-> 0]
    /\ full_text = TaxThenItems =>
         taxes = [icms |-> 525 * (Scale \div 2), cofins |-> 15 * Scale, pis |-> 20 * Scale]

\* the scenario has run to its result, the line's own ICMS guess of 20,00
\* summed and not reported
C6_Witness ==
  /\ pc = "done"
  /\ full_text = ItemsThenTax
  /\ sums.consumo.icms = 20 * Scale
  /\ result.consumo_kwh.icms = 300 * Scale
  /\ result.consumo_kwh.pis = 0

\* x rounded once to nd decimals: the nearest multiple of 10^-nd, the even
\* one of two that are equally near
RoundedOnce(x, nd) ==
  LET unit  == Scale \div Pow10(nd)
      near  == {r \in (x - unit \div 2)..(x + unit \div 2) : r % unit = 0}
  IN  CHOOSE r \in near :
        \A q \in near \ {r} : Abs(r - x) < Abs(q - x) \/ (r \div unit) % 2 = 0

RECURSIVE SumSeq(_, _)
SumSeq(v, k) == IF k = 0 THEN 0 ELSE v[k] + SumSeq(v, k - 1)

\* every monetary token of the whole document, minus the four named values
CrossCheck ==
  LET v == find_monetary_in_line(full_text)
  IN  SumSeq(v, Len(v))
        - (result.consumo_kwh.valor + result.energia_injetada.valor
           + result.bandeira.consumida.valor + result.bandeira.compensada.valor)

====
